---- MODULE Spec2Model ----
(***************************************************************************)
(* A model of the lemmatizer package: the cosine metric, the network       *)
(* builder and the mini-batch trainer of lemmatizer/cosine_mlp.py, and the *)
(* sentence preparation and windowing of lemmatizer/lemmatizer.py.         *)
(*                                                                         *)
(* Each function under study has one frame variable holding its arguments, *)
(* locals and position; a frame that a specification does not use stays    *)
(* Idle.  Floating-point values are modelled exactly: a finite value is a  *)
(* reduced fraction, and the IEEE specials nan, +inf and -inf are kept     *)
(* apart, so that division by zero yields what numpy yields (a value, not  *)
(* an exception).  Rounding is not modelled.                               *)
(***************************************************************************)
EXTENDS Integers, Sequences, FiniteSets, TLC

VARIABLES cs, wf, ps, net, tm

vars == <<cs, wf, ps, net, tm>>

Idle == [pc |-> "idle"]

(***************************************************************************)
(* Bounds of the model.                                                    *)
(***************************************************************************)
\* rows of a batch handed to mat_cosine_dist / cms
MaxBatch == 2

\* ---------------------------------------------------------------- helpers
Min(a, b) == IF a < b THEN a ELSE b

Max(a, b) == IF a > b THEN a ELSE b

Abs(a) == IF a < 0 THEN -a ELSE a

RECURSIVE Gcd(_, _)
Gcd(a, b) == IF b = 0 THEN a ELSE Gcd(b, a % b)

\* Python's s[lo:hi] on a sequence (0-based, clipped to the length).
Slice(s, lo, hi) ==
    LET l == Min(Max(lo, 0), Len(s))
        h == Min(Max(hi, 0), Len(s))
    IN  IF h <= l THEN <<>> ELSE SubSeq(s, l + 1, h)

\* Python's range(lo, hi) as a sequence.
Range(lo, hi) == IF hi <= lo THEN <<>> ELSE [t \in 1..(hi - lo) |-> lo + t - 1]

\* ------------------------------------------------------------ float values
NaN == [k |-> "nan", n |-> 0, d |-> 1]

PInf == [k |-> "inf", n |-> 1, d |-> 1]

NInf == [k |-> "inf", n |-> -1, d |-> 1]

\* the finite value n/d (d > 0), reduced
Fin(n, d) ==
    LET g == Gcd(Abs(n), d)
    IN  [k |-> "fin", n |-> n \div g, d |-> d \div g]

F(i) == Fin(i, 1)

IsFinite(a) == a.k = "fin"

Sign(i) == IF i > 0 THEN 1 ELSE IF i < 0 THEN -1 ELSE 0

FMul(a, b) ==
    IF a.k = "nan" \/ b.k = "nan" THEN NaN
    ELSE IF a.k = "fin" /\ b.k = "fin" THEN Fin(a.n * b.n, a.d * b.d)
    ELSE IF Sign(a.n) * Sign(b.n) = 0 THEN NaN
    ELSE IF Sign(a.n) * Sign(b.n) > 0 THEN PInf ELSE NInf

FAdd(a, b) ==
    IF a.k = "nan" \/ b.k = "nan" THEN NaN
    ELSE IF a.k = "fin" /\ b.k = "fin" THEN Fin(a.n * b.d + b.n * a.d, a.d * b.d)
    ELSE IF a.k = "inf" /\ b.k = "inf" THEN (IF a.n = b.n THEN a ELSE NaN)
    ELSE IF a.k = "inf" THEN a ELSE b

\* IEEE division as numpy performs it: a warning at most, never an exception.
FDiv(a, b) ==
    IF a.k = "nan" \/ b.k = "nan" THEN NaN
    ELSE IF a.k = "inf" /\ b.k = "inf" THEN NaN
    ELSE IF a.k = "inf" THEN (IF b.n < 0 THEN [a EXCEPT !.n = -a.n] ELSE a)
    ELSE IF b.k = "inf" THEN F(0)
    ELSE IF b.n = 0 THEN (IF a.n = 0 THEN NaN ELSE IF a.n > 0 THEN PInf ELSE NInf)
    ELSE Fin(Sign(b.n) * a.n * b.d, a.d * Abs(b.n))

FAbs(a) == IF a.k = "nan" THEN NaN ELSE [a EXCEPT !.n = Abs(a.n)]

Isqrt(i) == CHOOSE r \in 0..i : r * r = i

\* np.sqrt, on the values whose root is a fraction
FSqrt(a) ==
    IF a.k = "nan" THEN NaN
    ELSE IF a.n < 0 THEN NaN
    ELSE IF a.k = "inf" THEN PInf
    ELSE Fin(Isqrt(a.n), Isqrt(a.d))

\* np.log: the logarithm of a positive finite value is finite; its value is
\* kept symbolically as the argument it was taken of.
FLog(a) ==
    IF a.k = "nan" THEN NaN
    ELSE IF a.n < 0 THEN NaN
    ELSE IF a.k = "inf" THEN PInf
    ELSE IF a.n = 0 THEN NInf
    ELSE [k |-> "log", n |-> a.n, d |-> a.d]

\* unary minus
FNeg(a) ==
    IF a.k = "nan" THEN NaN
    ELSE IF a.k = "log" THEN [k |-> "neglog", n |-> a.n, d |-> a.d]
    ELSE IF a.k = "neglog" THEN [k |-> "log", n |-> a.n, d |-> a.d]
    ELSE [a EXCEPT !.n = -a.n]

NonFinite(a) == a.k \in {"nan", "inf"}

RECURSIVE FSumTo(_, _)
FSumTo(v, i) == IF i = 0 THEN F(0) ELSE FAdd(FSumTo(v, i - 1), v[i])

\* np.sum of a vector
FSum(v) == FSumTo(v, Len(v))

\* ------------------------------------------------------- cosine_mlp.py: cms
\* np.dot(A, B.T): entry [i][j] is the dot product of row i of A and row j of B
DotT(A, B) ==
    [i \in 1..Len(A) |->
        [j \in 1..Len(B) |->
            FSum([c \in 1..Len(A[i]) |-> FMul(A[i][c], B[j][c])])]]

\* np.diagonal(M, offset=0, axis1=-1, axis2=-2)
Diagonal(M) == [i \in 1..Len(M) |-> M[i][i]]

\* np.divide(u, v), elementwise
DivideV(u, v) == [i \in 1..Len(u) |-> FDiv(u[i], v[i])]

SqrtV(u) == [i \in 1..Len(u) |-> FSqrt(u[i])]

MatCosineDistCross(X, Y) ==
    LET prod == [i \in 1..Len(X) |-> DotT(X, Y)[i][1]]
        len1 == SqrtV(Diagonal(DotT(X, X)))
        len2 == SqrtV(Diagonal(DotT(Y, Y)))
    IN  DivideV(DivideV(prod, len1), len2)

MatCosineDistGuarded(X, Y) ==
    LET prod == Diagonal(DotT(X, Y))
        len1 == SqrtV(Diagonal(DotT(X, X)))
        len2 == SqrtV(Diagonal(DotT(Y, Y)))
    IN  [i \in 1..Len(X) |->
            IF len1[i] = F(0) \/ len2[i] = F(0) THEN F(0)
            ELSE FDiv(FDiv(prod[i], len1[i]), len2[i])]

MatCosineDist(X, Y) ==
    LET prod == Diagonal(DotT(X, Y))
        len1 == SqrtV(Diagonal(DotT(X, X)))
        len2 == SqrtV(Diagonal(DotT(Y, Y)))
    IN  DivideV(DivideV(prod, len1), len2)

CmsMeanAbs(preds, targets) ==
    FDiv(FSum([i \in 1..Len(preds) |-> FAbs(MatCosineDist(preds, targets)[i])]),
         F(Len(targets)))

Cms(preds, targets) ==
    FDiv(FAbs(FSum(MatCosineDist(preds, targets))), F(Len(targets)))

\* build.logprob, given the predictions
LogLik(preds, targets) == FLog(Cms(preds, targets))

\* rows handed to the metric: integer vectors whose norm is an integer
IntVecs == {<<0, 0>>, <<1, 0>>, <<0, 1>>, <<-1, 0>>, <<3, 4>>}

ToF(v) == [c \in 1..Len(v) |-> F(v[c])]

Batches(n) == [1..n -> {ToF(v) : v \in IntVecs}]

CsInit ==
    \E n \in 1..MaxBatch :
        \E X \in Batches(n), Y \in Batches(n) :
            cs = [pc |-> "start", X |-> X, Y |-> Y]

CsMatCosineDist ==
    /\ cs.pc = "start"
    /\ cs' = [pc |-> "dist", X |-> cs.X, Y |-> cs.Y,
              dist |-> MatCosineDist(cs.X, cs.Y)]
    /\ UNCHANGED <<wf, ps, net, tm>>

CsCms ==
    /\ cs.pc = "start"
    /\ cs' = [pc |-> "cms", X |-> cs.X, Y |-> cs.Y,
              cms |-> Cms(cs.X, cs.Y)]
    /\ UNCHANGED <<wf, ps, net, tm>>

CsLogprob ==
    /\ cs.pc = "start"
    /\ cs' = [pc |-> "logprob", X |-> cs.X, Y |-> cs.Y,
              log_lik |-> LogLik(cs.X, cs.Y)]
    /\ UNCHANGED <<wf, ps, net, tm>>

InitCosine == CsInit /\ wf = Idle /\ ps = Idle /\ net = Idle /\ tm = Idle

NextCosine == CsMatCosineDist \/ CsCms \/ CsLogprob

SpecCosine == InitCosine /\ [][NextCosine]_vars

\* ------------------------------------------------ properties of the metric
\* integer arithmetic on the rows of a batch, independent of the float model
RECURSIVE IDotTo(_, _, _)
IDotTo(x, y, c) == IF c = 0 THEN 0 ELSE IDotTo(x, y, c - 1) + x[c].n * y[c].n

IDot(x, y) == IDotTo(x, y, Len(x))

INorm(x) == CHOOSE r \in 0..IDot(x, x) : r * r = IDot(x, x)

NoZeroRow(X, Y) == \A i \in 1..Len(X) : IDot(X[i], X[i]) > 0 /\ IDot(Y[i], Y[i]) > 0

RECURSIVE NormProdTo(_, _, _)
NormProdTo(X, Y, i) ==
    IF i = 0 THEN 1 ELSE NormProdTo(X, Y, i - 1) * INorm(X[i]) * INorm(Y[i])

\* the product of all row norms: a common denominator of the row cosines
NormProd(X, Y) == NormProdTo(X, Y, Len(X))

\* row i's cosine, scaled by NormProd
ScaledCos(X, Y, i) == IDot(X[i], Y[i]) * (NormProd(X, Y) \div (INorm(X[i]) * INorm(Y[i])))

RECURSIVE SumScaledTo(_, _, _, _)
SumScaledTo(X, Y, i, abs) ==
    IF i = 0 THEN 0
    ELSE SumScaledTo(X, Y, i - 1, abs)
         + (IF abs THEN Abs(ScaledCos(X, Y, i)) ELSE ScaledCos(X, Y, i))

\* C6 as stated: cms is the mean over the rows of |cos(preds[i], targets[i])|.
C6_CmsIsMeanOfAbs ==
    (cs.pc = "cms" /\ NoZeroRow(cs.X, cs.Y)) =>
        /\ IsFinite(cs.cms)
        /\ cs.cms.n * Len(cs.X) * NormProd(cs.X, cs.Y)
             = cs.cms.d * SumScaledTo(cs.X, cs.Y, Len(cs.X), TRUE)

\* C6 amended: cms is the absolute value of the mean of the row cosines,
\* |sum_i cos(preds[i], targets[i])| / n; it is the mean of the absolute
\* cosines whenever no two rows have cosines of opposite sign.
C6_CmsIsAbsOfMean ==
    (cs.pc = "cms" /\ NoZeroRow(cs.X, cs.Y)) =>
        /\ IsFinite(cs.cms)
        /\ cs.cms.n * Len(cs.X) * NormProd(cs.X, cs.Y)
             = cs.cms.d * Abs(SumScaledTo(cs.X, cs.Y, Len(cs.X), FALSE))
        /\ (~ \E i, j \in 1..Len(cs.X) :
                  IDot(cs.X[i], cs.Y[i]) > 0 /\ IDot(cs.X[j], cs.Y[j]) < 0)
             => cs.cms.n * Len(cs.X) * NormProd(cs.X, cs.Y)
                  = cs.cms.d * SumScaledTo(cs.X, cs.Y, Len(cs.X), TRUE)

\* cms has run on a batch with a row of cosine 3/5 and a row of cosine -1
C6_Witness ==
    /\ cs.pc = "cms"
    /\ Len(cs.X) = 2
    /\ cs.X = <<ToF(<<3, 4>>), ToF(<<1, 0>>)>>
    /\ cs.Y = <<ToF(<<1, 0>>), ToF(<<-1, 0>>)>>
    /\ cs.cms = Fin(1, 5)

\* C7: mat_cosine_dist returns, for every row i, dot(x_i, y_i)/(|x_i| |y_i|) of
\* row i of X with row i of Y alone: 0 for orthogonal unit rows, 1 for equal
\* rows, -1 for opposite rows.
C7_RowwiseCosine ==
    cs.pc = "dist" =>
        /\ Len(cs.dist) = Len(cs.X)
        /\ \A i \in 1..Len(cs.X) :
              LET x == cs.X[i]
                  y == cs.Y[i]
                  v == cs.dist[i]
              IN  (IDot(x, x) > 0 /\ IDot(y, y) > 0) =>
                    /\ IsFinite(v)
                    /\ Sign(v.n) = Sign(IDot(x, y))
                    /\ v.n * v.n * IDot(x, x) * IDot(y, y)
                         = v.d * v.d * IDot(x, y) * IDot(x, y)
                    /\ (IDot(x, x) = 1 /\ IDot(y, y) = 1 /\ IDot(x, y) = 0) => v = F(0)
                    /\ (x = y) => v = F(1)
                    /\ (\A c \in 1..Len(x) : x[c].n = -y[c].n) => v = F(-1)

\* mat_cosine_dist has run on a batch holding an orthogonal pair of unit rows
\* and an opposite pair
C7_Witness ==
    /\ cs.pc = "dist"
    /\ cs.X = <<ToF(<<1, 0>>), ToF(<<1, 0>>)>>
    /\ cs.Y = <<ToF(<<0, 1>>), ToF(<<-1, 0>>)>>
    /\ cs.dist = <<F(0), F(-1)>>

\* ------------------------------------------- lemmatizer.py: window_featurizer
\* rows of the matrices handed to window_featurizer
MaxRows == 4

\* feature width of X
MaxFeat == 2

\* largest entry of the window size [before, after]
MaxWin == 2

\* a 2D numpy array: its shape and its rows
Zeros(n, w) == [shape |-> <<n, w>>, rows |-> [r \in 1..n |-> [c \in 1..w |-> 0]]]

\* an n-by-w input whose entries are pairwise different and non-zero
Tagged(n, w, base) ==
    [shape |-> <<n, w>>, rows |-> [r \in 1..n |-> [c \in 1..w |-> base + 10 * r + c]]]

\* sum(size)
SumSize(size) == size[1] + size[2]

\* row[lo:hi] = src
SetSlice(row, lo, hi, src) ==
    [c \in 1..Len(row) |-> IF lo < c /\ c <= hi THEN src[c - lo] ELSE row[c]]

WindowXShapeNoCentre(X, size) ==
    <<X.shape[1] - SumSize(size), X.shape[2] * SumSize(size)>>

\* the shape window_X is allocated with
WindowXShape(X, size) ==
    <<X.shape[1] - SumSize(size), X.shape[2] * (SumSize(size) + 1)>>

\* the shape window_y is allocated with
WindowYShape(y, size) == <<y.shape[1] - SumSize(size), y.shape[2]>>

\* the exclusive end of the outer loop's range
WindowLoopStop(X, size) == X.shape[1] - size[2] - 1

\* the inner loop: for j, k in enumerate(range(i-size[0], i+size[1]+1)),
\* entries j..(last) still to do
RECURSIVE WindowInner(_, _, _, _, _)
WindowInner(row, X, ks, j, w) ==
    IF j >= Len(ks) THEN row
    ELSE WindowInner(SetSlice(row, j * w, (j + 1) * w, X.rows[ks[j + 1] + 1]),
                     X, ks, j + 1, w)

WfInit ==
    \E n \in 0..MaxRows, f \in 1..MaxFeat, yw \in 1..2, b \in 0..MaxWin, a \in 0..MaxWin :
        wf = [pc |-> "start", X |-> Tagged(n, f, 0), y |-> Tagged(n, yw, 500),
              size |-> <<b, a>>]

\* if sum(size) <= 0: return X, y
WfReturnInputs ==
    /\ wf.pc = "start"
    /\ SumSize(wf.size) <= 0
    /\ wf' = [pc |-> "done", X |-> wf.X, y |-> wf.y, size |-> wf.size,
              ret |-> <<wf.X, wf.y>>]
    /\ UNCHANGED <<cs, ps, net, tm>>

\* the two np.zeros allocations; np.zeros raises on a negative dimension
WfAlloc ==
    /\ wf.pc = "start"
    /\ SumSize(wf.size) > 0
    /\ LET sx == WindowXShape(wf.X, wf.size)
           sy == WindowYShape(wf.y, wf.size)
       IN  IF sx[1] < 0 \/ sy[1] < 0
           THEN wf' = [pc |-> "error", X |-> wf.X, y |-> wf.y, size |-> wf.size]
           ELSE wf' = [pc |-> "loop", X |-> wf.X, y |-> wf.y, size |-> wf.size,
                       window_X |-> Zeros(sx[1], sx[2]),
                       window_y |-> Zeros(sy[1], sy[2]),
                       i |-> wf.size[1]]
    /\ UNCHANGED <<cs, ps, net, tm>>

\* one pass of the outer loop
WfLoopBody ==
    /\ wf.pc = "loop"
    /\ wf.i < WindowLoopStop(wf.X, wf.size)
    /\ LET i == wf.i
           r == i - wf.size[1] + 1
           ks == Range(i - wf.size[1], i + wf.size[2] + 1)
       IN  wf' = [wf EXCEPT
                    !.window_X.rows[r] = WindowInner(@, wf.X, ks, 0, wf.X.shape[2]),
                    !.window_y.rows[r] = wf.y.rows[i + 1],
                    !.i = i + 1]
    /\ UNCHANGED <<cs, ps, net, tm>>

\* return window_X, window_y
WfReturn ==
    /\ wf.pc = "loop"
    /\ wf.i >= WindowLoopStop(wf.X, wf.size)
    /\ wf' = [pc |-> "done", X |-> wf.X, y |-> wf.y, size |-> wf.size,
              ret |-> <<wf.window_X, wf.window_y>>]
    /\ UNCHANGED <<cs, ps, net, tm>>

InitWindow == WfInit /\ cs = Idle /\ ps = Idle /\ net = Idle /\ tm = Idle

NextWindow == WfReturnInputs \/ WfAlloc \/ WfLoopBody \/ WfReturn

SpecWindow == InitWindow /\ [][NextWindow]_vars

\* the concatenation of rows[lo..hi] (1-based, inclusive)
RECURSIVE ConcatRows(_, _, _)
ConcatRows(rows, lo, hi) ==
    IF hi < lo THEN <<>> ELSE ConcatRows(rows, lo, hi - 1) \o rows[hi]

\* C1 as stated: every output row r of window_X is X[r] .. X[r+b+a] concatenated
\* and every output row r of window_y is y[r+b]; none is left at its zero
\* initial value.
C1_EveryRowFilled ==
    (wf.pc = "done" /\ SumSize(wf.size) > 0 /\ wf.X.shape[1] > SumSize(wf.size)) =>
        \A r \in 0..(wf.X.shape[1] - SumSize(wf.size) - 1) :
            /\ wf.ret[1].rows[r + 1] = ConcatRows(wf.X.rows, r + 1, r + SumSize(wf.size) + 1)
            /\ wf.ret[2].rows[r + 1] = wf.y.rows[r + wf.size[1] + 1]

\* C2: size=[0,0] returns X and y themselves; size=[b,a] with b+a > 0 returns
\* N-(b+a) rows of width (b+a+1)*F and N-(b+a) rows of y's width.
C2_OutputShape ==
    wf.pc = "done" =>
        LET n == wf.X.shape[1]
            f == wf.X.shape[2]
            s == SumSize(wf.size)
        IN  /\ s = 0 => wf.ret = <<wf.X, wf.y>>
            /\ s > 0 =>
                 /\ wf.ret[1].shape = <<n - s, (s + 1) * f>>
                 /\ Len(wf.ret[1].rows) = n - s
                 /\ \A r \in 1..(n - s) : Len(wf.ret[1].rows[r]) = (s + 1) * f
                 /\ wf.ret[2].shape = <<n - s, wf.y.shape[2]>>
                 /\ Len(wf.ret[2].rows) = n - s
                 /\ \A r \in 1..(n - s) : Len(wf.ret[2].rows[r]) = wf.y.shape[2]

\* window_featurizer has returned for size=[1,1] on a 4-row input of width 2
C2_Witness ==
    /\ wf.pc = "done"
    /\ wf.size = <<1, 1>>
    /\ wf.X.shape = <<4, 2>>
    /\ wf.ret[1].shape = <<2, 6>>
    /\ Len(wf.ret[1].rows) = 2

\* -------------------------------------------- lemmatizer.py: prepare_sentence
\* longest sentence handed to prepare_sentence
MaxSent == 3

\* largest max_words
MaxMaxWords == 2

\* width of a word vector (300 in the program, scaled down)
EmbDim == 2

Vocabulary == {"runs", "dogs", "zzz"}

\* the embedding model's table: the words it knows
Embedding(w) ==
    CASE w = "runs" -> 10
      [] w = "run"  -> 20
      [] w = "dogs" -> 30
      [] w = "dog"  -> 40
      [] OTHER      -> 0

\* vectorizer = lambda x: model[x] if x in model else np.zeros(300)
Vectorizer(w) ==
    IF Embedding(w) # 0 THEN [c \in 1..EmbDim |-> Embedding(w) + c]
    ELSE [c \in 1..EmbDim |-> 0]

\* pos_tag, as a table of the tag each word of the vocabulary gets
PosTag(w) ==
    CASE w = "runs" -> "VBZ"
      [] w = "dogs" -> "NNS"
      [] OTHER      -> "FW"

\* treebank_to_simple(penn_tag, default)
TreebankToSimple(penn_tag, default) ==
    CASE penn_tag \in {"NN", "NNS", "NNP"} -> "n"
      [] penn_tag \in {"JJ", "JJR"}        -> "a"
      [] penn_tag \in {"VB", "VBZ", "VBD"} -> "v"
      [] penn_tag \in {"RB", "RBR"}        -> "r"
      [] OTHER                             -> default

\* WordNetLemmatizer().lemmatize(w, pos=p), as a table
Lemmatize(w, p) ==
    CASE w = "runs" /\ p = "v" -> "run"
      [] w = "dogs" /\ p = "n" -> "dog"
      [] OTHER                 -> w

\* pos_dict[pos] = i for i, pos in enumerate(pos_list)
PosDict(tag) ==
    CASE tag = "NNS" -> 1
      [] tag = "VBZ" -> 2
      [] tag = "FW"  -> 3
      [] OTHER       -> 0

NumWordsNoTruncate(words, max_words) == Len(words)

\* num_words = len(words) if len(words) <= max_words else max_words
NumWords(words, max_words) ==
    IF Len(words) <= max_words THEN Len(words) ELSE max_words

Sentences == UNION {[1..n -> Vocabulary] : n \in 0..MaxSent}

PsInit ==
    \E words \in Sentences, max_words \in 0..MaxMaxWords, return_output \in BOOLEAN :
        ps = [pc |-> "start", words |-> words, max_words |-> max_words,
              return_output |-> return_output]

\* everything before the loop: the allocations, the tags and the lemmas
PsSetup ==
    /\ ps.pc = "start"
    /\ LET raw_pos == [t \in 1..Len(ps.words) |-> PosTag(ps.words[t])]
           pos == [t \in 1..Len(ps.words) |-> TreebankToSimple(raw_pos[t], "n")]
           lemmas == IF ps.return_output
                     THEN [t \in 1..Len(ps.words) |-> Lemmatize(ps.words[t], pos[t])]
                     ELSE <<>>
       IN  ps' = [pc |-> "loop", words |-> ps.words, max_words |-> ps.max_words,
                  return_output |-> ps.return_output,
                  X |-> Zeros(ps.max_words, EmbDim + 1),
                  y |-> IF ps.return_output THEN Zeros(ps.max_words, EmbDim)
                        ELSE Zeros(0, 0),
                  raw_pos |-> raw_pos, lemmas |-> lemmas,
                  num_words |-> NumWords(ps.words, ps.max_words),
                  word_i |-> 0]
    /\ UNCHANGED <<cs, wf, net, tm>>

\* one pass of the loop; an index past the sentence or past the rows raises
PsLoopBody ==
    /\ ps.pc = "loop"
    /\ ps.word_i < ps.num_words
    /\ LET r == ps.word_i + 1
       IN  IF r > ps.max_words \/ r > Len(ps.words)
           THEN ps' = [ps EXCEPT !.pc = "error"]
           ELSE ps' = [ps EXCEPT
                    !.X.rows[r] =
                        [SetSlice(@, 0, EmbDim, Vectorizer(ps.words[r]))
                            EXCEPT ![Len(@)] = PosDict(ps.raw_pos[r])],
                    !.y.rows = IF ps.return_output
                               THEN [@ EXCEPT ![r] = Vectorizer(ps.lemmas[r])]
                               ELSE @,
                    !.word_i = ps.word_i + 1]
    /\ UNCHANGED <<cs, wf, net, tm>>

\* return X, y  /  return X
PsReturn ==
    /\ ps.pc = "loop"
    /\ ps.word_i >= ps.num_words
    /\ ps' = [pc |-> "done", words |-> ps.words, max_words |-> ps.max_words,
              return_output |-> ps.return_output,
              ret |-> IF ps.return_output THEN <<ps.X, ps.y>> ELSE <<ps.X>>]
    /\ UNCHANGED <<cs, wf, net, tm>>

InitPrepare == PsInit /\ cs = Idle /\ wf = Idle /\ net = Idle /\ tm = Idle

NextPrepare == PsSetup \/ PsLoopBody \/ PsReturn

SpecPrepare == InitPrepare /\ [][NextPrepare]_vars

\* C3: prepare_sentence always returns max_words rows; row i < min(len(words),
\* max_words) holds the vector of words[i] and, last, pos_dict of its tag (y row
\* i the vector of its lemma); every row i >= len(words) is all-zero.
C3_PaddedRows ==
    /\ ps.pc # "error"
    /\ ps.pc = "done" =>
         LET X == ps.ret[1]
             n == Len(ps.words)
             filled == IF n < ps.max_words THEN n ELSE ps.max_words
         IN  /\ X.shape = <<ps.max_words, EmbDim + 1>>
             /\ Len(X.rows) = ps.max_words
             /\ Len(ps.ret) = (IF ps.return_output THEN 2 ELSE 1)
             /\ \A i \in 1..ps.max_words :
                  /\ Len(X.rows[i]) = EmbDim + 1
                  /\ i <= filled =>
                       /\ SubSeq(X.rows[i], 1, EmbDim) = Vectorizer(ps.words[i])
                       /\ X.rows[i][EmbDim + 1] = PosDict(PosTag(ps.words[i]))
                  /\ i > n => \A c \in 1..(EmbDim + 1) : X.rows[i][c] = 0
             /\ ps.return_output =>
                  /\ ps.ret[2].shape = <<ps.max_words, EmbDim>>
                  /\ Len(ps.ret[2].rows) = ps.max_words
                  /\ \A i \in 1..ps.max_words :
                       /\ i <= filled =>
                            ps.ret[2].rows[i] =
                              Vectorizer(Lemmatize(ps.words[i],
                                 TreebankToSimple(PosTag(ps.words[i]), "n")))
                       /\ i > n => \A c \in 1..EmbDim : ps.ret[2].rows[i][c] = 0

\* prepare_sentence has returned for a 3-word sentence cut to 2 rows
C3_Witness ==
    /\ ps.pc = "done"
    /\ ps.words = <<"runs", "dogs", "runs">>
    /\ ps.max_words = 2
    /\ ps.return_output
    /\ Len(ps.ret[1].rows) = 2
    /\ ps.ret[1].rows[2][EmbDim + 1] = 1
    /\ ps.ret[2].rows[1] = Vectorizer("run")

\* ------------------------------------------------------ cosine_mlp.py: build
\* longest layer_sizes list
MaxLayers == 3

\* widest layer
MaxWidth == 4

\* rows of the batch handed to predictions
MaxInputRows == 2

\* shapes = list(zip(layer_sizes[:-1], layer_sizes[1:]))
Shapes(layer_sizes) ==
    [t \in 1..(Len(layer_sizes) - 1) |-> <<layer_sizes[t], layer_sizes[t + 1]>>]

RECURSIVE NumWeightsTo(_, _)
NumWeightsTo(shapes, t) ==
    IF t = 0 THEN 0
    ELSE NumWeightsTo(shapes, t - 1) + (shapes[t][1] + 1) * shapes[t][2]

\* num_weights = sum((m+1)*n for m, n in shapes)
NumWeights(shapes) == NumWeightsTo(shapes, Len(shapes))

UnpackRestNoBias(weights, m, n) == Slice(weights, m * n, Len(weights))

\* weights = weights[(m+1)*n:]
UnpackRest(weights, m, n) == Slice(weights, (m + 1) * n, Len(weights))

\* weights[:m*n], before the reshape
UnpackWeights(weights, m, n) == Slice(weights, 0, m * n)

\* weights[m*n:m*n+n], before the reshape
UnpackBiases(weights, m, n) == Slice(weights, m * n, m * n + n)

PredictionsResultActivated(outputs, inputs) == inputs

\* return outputs
PredictionsResult(outputs, inputs) == outputs

\* a flat weight vector whose entry at index t is tagged t
TaggedWeights(len) == [t \in 1..len |-> t - 1]

LayerSizes == UNION {[1..l -> 1..MaxWidth] : l \in 2..MaxLayers}

NetInit ==
    \E layer_sizes \in LayerSizes : net = [pc |-> "start", layer_sizes |-> layer_sizes]

\* build(layer_sizes): the shapes and the parameter count
NetBuild ==
    /\ net.pc = "start"
    /\ net' = [pc |-> "built", layer_sizes |-> net.layer_sizes,
               shapes |-> Shapes(net.layer_sizes),
               num_weights |-> NumWeights(Shapes(net.layer_sizes))]
    /\ UNCHANGED <<cs, wf, ps, tm>>

\* predictions(weights, inputs) is called with a batch of the input width and
\* a weight vector of num_weights entries, one fewer or one more
NetCall ==
    /\ net.pc = "built"
    /\ \E rows \in 1..MaxInputRows, extra \in {-1, 0, 1} :
          net' = [pc |-> "loop", layer_sizes |-> net.layer_sizes,
                  shapes |-> net.shapes, num_weights |-> net.num_weights,
                  given |-> net.num_weights + extra,
                  weights |-> TaggedWeights(net.num_weights + extra),
                  rows |-> rows,
                  inputs |-> [shape |-> <<rows, net.layer_sizes[1]>>, expr |-> <<>>],
                  outputs |-> [shape |-> <<0, 0>>, expr |-> <<>>],
                  layer |-> 1, blocks |-> <<>>]
    /\ UNCHANGED <<cs, wf, ps, tm>>

\* one pass of "for W, b in unpack_layers(weights)": the generator slices and
\* reshapes, the body multiplies and activates, the generator drops the layer
NetLayer ==
    /\ net.pc = "loop"
    /\ net.layer <= Len(net.shapes)
    /\ LET m == net.shapes[net.layer][1]
           n == net.shapes[net.layer][2]
           W == UnpackWeights(net.weights, m, n)
           b == UnpackBiases(net.weights, m, n)
           outputs == [shape |-> <<net.inputs.shape[1], n>>,
                       expr |-> Append(net.inputs.expr,
                                       [op |-> "affine", layer |-> net.layer])]
       IN  IF Len(W) # m * n \/ Len(b) # n \/ net.inputs.shape[2] # m
           THEN net' = [net EXCEPT !.pc = "error"]
           ELSE net' = [net EXCEPT
                    !.outputs = outputs,
                    !.inputs = [shape |-> outputs.shape,
                                expr |-> Append(outputs.expr,
                                                [op |-> "nl", layer |-> net.layer])],
                    !.blocks = Append(@, [W |-> W, b |-> b]),
                    !.weights = UnpackRest(net.weights, m, n),
                    !.layer = net.layer + 1]
    /\ UNCHANGED <<cs, wf, ps, tm>>

\* the generator is exhausted: return outputs
NetReturn ==
    /\ net.pc = "loop"
    /\ net.layer > Len(net.shapes)
    /\ net' = [net EXCEPT !.pc = "done",
                          !.outputs = PredictionsResult(net.outputs, net.inputs)]
    /\ UNCHANGED <<cs, wf, ps, tm>>

InitBuild == NetInit /\ cs = Idle /\ wf = Idle /\ ps = Idle /\ tm = Idle

NextBuild == NetBuild \/ NetCall \/ NetLayer \/ NetReturn

SpecBuild == InitBuild /\ [][NextBuild]_vars

RECURSIVE FlattenBlocks(_, _)
FlattenBlocks(blocks, t) ==
    IF t = 0 THEN <<>> ELSE FlattenBlocks(blocks, t - 1) \o blocks[t].W \o blocks[t].b

RECURSIVE ClosedForm(_, _)
ClosedForm(ls, t) ==
    IF t < 2 THEN 0 ELSE ClosedForm(ls, t - 1) + ls[t - 1] * ls[t] + ls[t]

\* C4: num_weights is the sum of (m+1)*n over consecutive layer sizes ([4,3,2]
\* gives 23); on a vector of that length unpack_layers gives each layer m*n
\* weights then n biases, the blocks consecutive, disjoint and covering
\* 0..num_weights-1, with nothing left after the last layer.
C4_UnpackPartition ==
    /\ net.pc \in {"built", "loop", "done", "error"} =>
         /\ net.num_weights = ClosedForm(net.layer_sizes, Len(net.layer_sizes))
         /\ net.layer_sizes = <<4, 3, 2>> => net.num_weights = 23
    /\ (net.pc \in {"loop", "done", "error"} /\ net.given = net.num_weights) =>
         /\ net.pc # "error"
         /\ \A t \in 1..Len(net.blocks) :
              /\ Len(net.blocks[t].W) = net.layer_sizes[t] * net.layer_sizes[t + 1]
              /\ Len(net.blocks[t].b) = net.layer_sizes[t + 1]
         /\ FlattenBlocks(net.blocks, Len(net.blocks)) \o net.weights
              = TaggedWeights(net.num_weights)
         /\ net.pc = "done" =>
              /\ Len(net.blocks) = Len(net.layer_sizes) - 1
              /\ net.weights = <<>>

\* predictions has unpacked a 23-entry vector for layer_sizes [4,3,2]
C4_Witness ==
    /\ net.pc = "done"
    /\ net.layer_sizes = <<4, 3, 2>>
    /\ net.given = 23
    /\ Len(net.blocks) = 2
    /\ net.blocks[2].b = <<21, 22>>

\* C5: the value predictions returns is the last layer's affine output, the
\* nonlinearity having been applied to the output of every earlier layer and
\* to no other: L-2 times for L layer sizes; its shape is (rows, layer_sizes[-1]).
C5_LastLayerLinear ==
    net.pc = "done" =>
        LET L == Len(net.layer_sizes)
            e == net.outputs.expr
        IN  /\ net.outputs.shape = <<net.rows, net.layer_sizes[L]>>
            /\ Len(e) = 2 * (L - 1) - 1
            /\ \A t \in 1..Len(e) :
                 e[t] = IF t % 2 = 1
                        THEN [op |-> "affine", layer |-> (t + 1) \div 2]
                        ELSE [op |-> "nl", layer |-> t \div 2]
            /\ Cardinality({t \in 1..Len(e) : e[t].op = "nl"}) = L - 2
            /\ e[Len(e)] = [op |-> "affine", layer |-> L - 1]

\* predictions has returned for a network with one hidden layer
C5_Witness ==
    /\ net.pc = "done"
    /\ Len(net.layer_sizes) = 3
    /\ net.rows = 2
    /\ net.outputs.expr = <<[op |-> "affine", layer |-> 1], [op |-> "nl", layer |-> 1],
                            [op |-> "affine", layer |-> 2]>>

\* -------------------------------------------------- cosine_mlp.py: train_mlp
\* rows of the training split
MaxTrain == 3

\* largest batch_size
MaxBatchSize == 2

\* largest num_epochs
MaxEpochs == 2

\* target rows of the training split, a zero-norm row among them
TargetVecs == {<<1, 0>>, <<0, 0>>}

\* rows a network with finite weights may predict
PredVecs == {<<1, 0>>, <<-1, 0>>, <<0, 0>>}

NaNRow == <<NaN, NaN>>

\* num_batches = int(np.ceil(tr_inputs.shape[0] / batch_size)): the module is
\* Python 2 code without "from __future__ import division", so the quotient of
\* the two ints is already floored when np.ceil sees it
NumBatches(n, batch_size) == n \div batch_size

\* num_iters=num_epochs*num_batches
NumIters(num_epochs, num_batches) == num_epochs * num_batches

BatchIdxByEpoch(iter, num_batches) == iter \div num_batches

\* idx = iter % num_batches
BatchIdx(iter, num_batches) == iter % num_batches

\* slice(idx * batch_size, (idx+1) * batch_size), as the bounds of the slice
BatchIndices(iter, num_batches, batch_size) ==
    LET idx == BatchIdx(iter, num_batches)
    IN  <<idx * batch_size, (idx + 1) * batch_size>>

\* l2_lambda * np.sum(np.power(weights,2)) + l1_lambda * np.sum(np.abs(weights))
\* with the default l1_lambda = l2_lambda = 0: zero, or nan once the weights are
Penalty(weights) == IF weights = "nan" THEN NaN ELSE F(0)

\* objective(weights, iter), given the batch and its predictions
Objective(preds, targets, weights) ==
    LET nll == FNeg(LogLik(preds, targets))
    IN  IF nll.k = "nan" \/ Penalty(weights).k = "nan" THEN NaN ELSE nll

\* what the predictions of a batch can be: any rows while the weights are
\* finite, nan rows once they are not
PredsFor(n, weights) ==
    IF weights = "nan" THEN {[t \in 1..n |-> NaNRow]}
    ELSE [1..n -> {ToF(v) : v \in PredVecs}]

\* one update of the optimizer: the gradient of a non-finite objective is nan,
\* and so is every weight from then on
AdamUpdate(weights, objective) == IF NonFinite(objective) THEN "nan" ELSE weights

\* the optimizer's loop, for i in range(num_iters): whether iteration iter runs
AdamContinues(iter, num_iters) == iter < num_iters

TmInit ==
    \E n \in 0..MaxTrain, batch_size \in 1..MaxBatchSize, num_epochs \in 1..MaxEpochs :
        \E tr_outputs \in [1..n -> {ToF(v) : v \in TargetVecs}] :
            tm = [pc |-> "start", tr_outputs |-> tr_outputs,
                  batch_size |-> batch_size, num_epochs |-> num_epochs]

\* train_mlp up to the call of adam
TmSetup ==
    /\ tm.pc = "start"
    /\ LET num_batches == NumBatches(Len(tm.tr_outputs), tm.batch_size)
       IN  tm' = [pc |-> "adam", tr_outputs |-> tm.tr_outputs,
                  batch_size |-> tm.batch_size, num_epochs |-> tm.num_epochs,
                  num_batches |-> num_batches,
                  num_iters |-> NumIters(tm.num_epochs, num_batches),
                  weights |-> "finite", iter |-> 0,
                  used |-> [idx \in 0..(num_batches - 1) |-> 0],
                  visited |-> {}, last_idx |-> -1, first_bad |-> -1,
                  preds |-> <<>>, targets |-> <<>>, dist |-> <<>>,
                  cms |-> F(0), log_lik |-> F(0), objective |-> F(0)]
    /\ UNCHANGED <<cs, wf, ps, net>>

\* one iteration of adam: the gradient of objective(weights, iter), the callback
\* (print_perf, which only prints), the update
TmStep ==
    /\ tm.pc = "adam"
    /\ AdamContinues(tm.iter, tm.num_iters)
    /\ LET sl == BatchIndices(tm.iter, tm.num_batches, tm.batch_size)
           targets == Slice(tm.tr_outputs, sl[1], sl[2])
           lo == Min(sl[1], Len(tm.tr_outputs))
           hi == Min(sl[2], Len(tm.tr_outputs))
           idx == BatchIdx(tm.iter, tm.num_batches)
       IN  \E preds \in PredsFor(Len(targets), tm.weights) :
             LET objective == Objective(preds, targets, tm.weights)
             IN  tm' = [tm EXCEPT
                    !.preds = preds,
                    !.targets = targets,
                    !.dist = MatCosineDist(preds, targets),
                    !.cms = Cms(preds, targets),
                    !.log_lik = LogLik(preds, targets),
                    !.objective = objective,
                    !.weights = AdamUpdate(tm.weights, objective),
                    !.used = IF idx \in DOMAIN tm.used
                             THEN [@ EXCEPT ![idx] = @ + 1] ELSE @,
                    !.visited = @ \cup {r \in 0..(Len(tm.tr_outputs) - 1) : lo <= r /\ r < hi},
                    !.last_idx = idx,
                    !.first_bad = IF @ = -1 /\ NonFinite(objective) THEN tm.iter ELSE @,
                    !.iter = tm.iter + 1]
    /\ UNCHANGED <<cs, wf, ps, net>>

\* adam has done num_iters iterations: return predictions, logprob, trained_weights
TmReturn ==
    /\ tm.pc = "adam"
    /\ ~AdamContinues(tm.iter, tm.num_iters)
    /\ tm' = [tm EXCEPT !.pc = "done"]
    /\ UNCHANGED <<cs, wf, ps, net>>

InitTrain == TmInit /\ cs = Idle /\ wf = Idle /\ ps = Idle /\ net = Idle

NextTrain == TmSetup \/ TmStep \/ TmReturn

SpecTrain == InitTrain /\ [][NextTrain]_vars

ZeroRow(x) == \A c \in 1..Len(x) : x[c] = F(0)

\* C8: a zero-norm row in either argument gives mat_cosine_dist a non-finite
\* value for that row and no error; cms, logprob and the objective of that
\* batch are non-finite too; training does not stop on it: it runs its whole
\* budget and returns.
C8_NonFiniteNotSurfaced ==
    /\ tm.pc \in {"start", "adam", "done"}
    /\ (tm.pc \in {"adam", "done"} /\ tm.iter > 0) =>
         /\ Len(tm.dist) = Len(tm.targets)
         /\ \A i \in 1..Len(tm.targets) :
              (ZeroRow(tm.preds[i]) \/ ZeroRow(tm.targets[i])) => NonFinite(tm.dist[i])
         /\ (\E i \in 1..Len(tm.targets) : ZeroRow(tm.preds[i]) \/ ZeroRow(tm.targets[i]))
              => /\ NonFinite(tm.cms)
                 /\ NonFinite(tm.log_lik)
                 /\ NonFinite(tm.objective)
    /\ (tm.pc = "adam" /\ tm.first_bad >= 0 /\ tm.iter < tm.num_epochs * tm.num_batches)
         => ENABLED TmStep
    /\ tm.pc = "done" => tm.iter = tm.num_epochs * tm.num_batches

\* training has returned after a non-finite objective at its first iteration
\* and at least two more iterations
C8_Witness ==
    /\ tm.pc = "done"
    /\ tm.first_bad = 0
    /\ tm.iter >= 3
    /\ ZeroRow(tm.tr_outputs[1])
    /\ tm.weights = "nan"

\* C9: adam is asked for num_epochs * num_batches iterations, iteration i uses
\* batch i mod num_batches, and at the end every batch index has been used
\* num_epochs times.
C9_FixedBudget ==
    tm.pc \in {"adam", "done"} =>
        /\ tm.num_iters = tm.num_epochs * tm.num_batches
        /\ tm.iter <= tm.num_epochs * tm.num_batches
        /\ tm.iter > 0 => tm.last_idx = (tm.iter - 1) % tm.num_batches
        /\ \A idx \in 0..(tm.num_batches - 1) :
             tm.used[idx] = Cardinality({i \in 0..(tm.iter - 1) : i % tm.num_batches = idx})
        /\ tm.pc = "adam" => (ENABLED TmReturn <=> tm.iter = tm.num_epochs * tm.num_batches)
        /\ tm.pc = "done" =>
             /\ tm.iter = tm.num_epochs * tm.num_batches
             /\ \A idx \in 0..(tm.num_batches - 1) : tm.used[idx] = tm.num_epochs

\* training has returned after 2 epochs of 3 batches
C9_Witness ==
    /\ tm.pc = "done"
    /\ tm.num_batches = 3
    /\ tm.num_epochs = 2
    /\ tm.iter = 6
    /\ \A idx \in 0..2 : tm.used[idx] = 2

\* the rows of the slice batch_indices gives for batch idx
BatchRows(idx, batch_size, n) ==
    {r \in 0..(n - 1) : idx * batch_size <= r /\ r < (idx + 1) * batch_size}

\* C10 as stated: the slices of one epoch are non-empty, pairwise disjoint and
\* cover every training row, so every row contributes once per epoch.
C10_BatchesCoverRows ==
    (tm.pc \in {"adam", "done"} /\ Len(tm.tr_outputs) >= 1) =>
        LET n == Len(tm.tr_outputs)
        IN  /\ \A idx \in 0..(tm.num_batches - 1) :
                 BatchRows(idx, tm.batch_size, n) # {}
            /\ \A i, j \in 0..(tm.num_batches - 1) :
                 i # j => BatchRows(i, tm.batch_size, n) \cap BatchRows(j, tm.batch_size, n) = {}
            /\ UNION {BatchRows(idx, tm.batch_size, n) : idx \in 0..(tm.num_batches - 1)}
                 = 0..(n - 1)
            /\ tm.pc = "done" => tm.visited = 0..(n - 1)

====
